---------------------------- MODULE Spec2Model ----------------------------
(***************************************************************************)
(* A model of the wiki's search/relevance-ranking engine                   *)
(* (src/flaskr/backend.py, Backend.search_pages) together with the parts   *)
(* of the Backend it reaches into: the page store, the listing kept by     *)
(* the constructor, get_all_page_names and get_wiki_page; and of the       *)
(* Backend's other operations on the page store and the user store:        *)
(* upload, sign_up and delete_page.                                        *)
(*                                                                         *)
(* Strings are sequences of one-character strings, so that len(), the      *)
(* iteration of a str character by character and the edit distance are     *)
(* the operations of the code.                                             *)
(***************************************************************************)
EXTENDS Integers, Sequences, FiniteSets, TLC

VARIABLES
    \* ---- the edit-distance metric, exercised on its own (SpecMetric) ----
    sa, sb, sc,         \* three argument strings
    dist,               \* the distances measured between them, or NotMeasured
    reach,              \* the strings reachable from sa in `edits` single edits
    edits               \* number of edit rounds applied to sa so far

VARIABLES
    \* ---- the Backend and the page store ----
    storage_client,     \* which storage client the Backend was constructed with
    pages_bucket,       \* the stored pages: name -> content, or NoPage
    pages_blobs,        \* self.pages_blobs, the listing made by __init__
    mutations,          \* number of changes other writers made to the store
    \* ---- one search_pages call ----
    pc,                 \* "idle", "called", "enumerate", "loop", "returned",
                        \* "raised"
    request,            \* the arguments of the call, as passed
    max_relevance_score,\* the local of that name (reassigned at line 210)
    all_pages,          \* what get_all_page_names returned
    idx,                \* position in all_pages of the next loop iteration
    search_results,     \* the list of (page_title, relevance_score)
    page_titles,        \* the value returned
    \* ---- history of the calls (not program state) ----
    calls,              \* the searcher's methods called by this call, in order
    fetched,            \* per loop iteration: what get_wiki_page returned
                        \* and the relevance_score computed from it
    enumError,          \* get_all_page_names took an error path in this call
    previous,           \* the preceding completed call on this Backend
    created             \* the pages other writers created during this call,
                        \* after it enumerated the titles

VARIABLES
    \* ---- the user store, and the other operations of the Backend ----
    users_bucket,       \* the stored users: name -> stored password hash
    users_blobs,        \* self.users_blobs, the listing made by __init__
    reply,              \* the last operation called on the Backend, with
                        \* what it met and what it returned or raised
    ops                 \* number of such operations so far

metricVars == <<sa, sb, sc, dist, reach, edits>>

opVars == <<users_bucket, users_blobs, reply, ops>>

storeVars == <<storage_client, pages_bucket, pages_blobs, mutations>>

callVars == <<pc, request, max_relevance_score, all_pages, idx,
              search_results, page_titles, calls, fetched, enumError,
              previous, created>>

vars == <<sa, sb, sc, dist, reach, edits,
          storage_client, pages_bucket, pages_blobs, mutations,
          pc, request, max_relevance_score, all_pages, idx,
          search_results, page_titles, calls, fetched, enumError, previous,
          created, users_bucket, users_blobs, reply, ops>>

---------------------------------------------------------------------------
(* Bounds of the model.                                                    *)

\* longest argument string of the metric in SpecMetric
MaxStr == 3

\* the characters argument strings are made of
Alphabet == {"a", "b"}

---------------------------------------------------------------------------
(* Strings.                                                                *)

\* all strings over Alphabet of length at most n
StringsUpTo(n) == UNION {[1..k -> Alphabet] : k \in 0..n}

Min2(x, y) == IF x <= y THEN x ELSE y

Min3(x, y, z) == Min2(x, Min2(y, z))

---------------------------------------------------------------------------
(* The edit-distance metric, levenshtein_distance of flaskr/search_algo.   *)
(* The table is filled row by row; a row is a sequence whose element j+1   *)
(* is table[i][j].                                                         *)

\* (faulty variant: the first row is left at its initial zeros)
FirstRowUnset(b) == [k \in 1..(Len(b) + 1) |-> 0]
\* table[0][j] = j for all j
FirstRow(b) == [k \in 1..(Len(b) + 1) |-> k - 1]

\* (faulty variant: the diagonal neighbour is left out of the minimum)
CellNoSubstitution(a, b, i, j, prev, acc) ==
    IF j = 0 THEN i
    ELSE IF a[i] = b[j] THEN prev[j]
    ELSE 1 + Min2(prev[j + 1], acc[j])
\* (faulty variant: a match writes 0 instead of copying table[i-1][j-1])
CellMatchResets(a, b, i, j, prev, acc) ==
    IF j = 0 THEN i
    ELSE IF a[i] = b[j] THEN 0
    ELSE 1 + Min3(prev[j + 1], acc[j], prev[j])
\* (faulty variant: the first column is left at its initial zeros)
CellFirstColumnUnset(a, b, i, j, prev, acc) ==
    IF j = 0 THEN 0
    ELSE IF a[i] = b[j] THEN prev[j]
    ELSE 1 + Min3(prev[j + 1], acc[j], prev[j])
\* one cell table[i][j], i >= 1, from row i-1 (prev) and the cells of row i
\* to its left (acc): table[i][0] = i; table[i-1][j-1] on a match; else
\* 1 + min(table[i-1][j], table[i][j-1], table[i-1][j-1])
Cell(a, b, i, j, prev, acc) ==
    IF j = 0 THEN i
    ELSE IF a[i] = b[j] THEN prev[j]
    ELSE 1 + Min3(prev[j + 1], acc[j], prev[j])

RECURSIVE NextRow(_, _, _, _, _)
NextRow(a, b, i, prev, acc) ==
    IF Len(acc) = Len(b) + 1 THEN acc
    ELSE NextRow(a, b, i, prev, Append(acc, Cell(a, b, i, Len(acc), prev, acc)))

\* row i of the table of a and b
RECURSIVE TableRow(_, _, _)
TableRow(a, b, i) ==
    IF i = 0 THEN FirstRow(b)
    ELSE NextRow(a, b, i, TableRow(a, b, i - 1), <<>>)

\* the whole table: table(a, b)[i][j] for i in 0..len(a), j in 0..len(b)
table(a, b) ==
    [i \in 0..Len(a) |-> [j \in 0..Len(b) |-> TableRow(a, b, i)[j + 1]]]

\* the result is table[len(a)][len(b)]
levenshtein_distance(a, b) == TableRow(a, b, Len(a))[Len(b) + 1]

---------------------------------------------------------------------------
(* Single-character edits: what the metric is said to count.               *)

Insertions(s) ==
    {SubSeq(s, 1, k) \o <<c>> \o SubSeq(s, k + 1, Len(s)) :
        k \in 0..Len(s), c \in Alphabet}

Deletions(s) ==
    {SubSeq(s, 1, k - 1) \o SubSeq(s, k + 1, Len(s)) : k \in 1..Len(s)}

Substitutions(s) ==
    {[s EXCEPT ![k] = c] : k \in 1..Len(s), c \in Alphabet}

\* the strings one edit away from s; intermediate strings may be one
\* character longer than the longest argument
OneEdit(s) ==
    {t \in Insertions(s) \cup Deletions(s) \cup Substitutions(s) :
        Len(t) <= MaxStr + 1}

---------------------------------------------------------------------------
(* Python floats.  A float is a pair <<num, den>>, den a power of two and  *)
(* the fraction in lowest terms.  Every operation rounds its exact result  *)
(* to Prec significant bits, to nearest and ties to even, as IEEE 754      *)
(* arithmetic does; Python's float has 53 significant bits, the model      *)
(* fewer.  Exponent range is not modelled: no value here comes near it.    *)

\* significant bits of a float in the model
Prec == 5

RECURSIVE Pow2(_)
Pow2(n) == IF n = 0 THEN 1 ELSE 2 * Pow2(n - 1)

RECURSIVE Reduce(_, _)
Reduce(n, d) ==
    IF d > 1 /\ n % 2 = 0 THEN Reduce(n \div 2, d \div 2) ELSE <<n, d>>

\* the float nearest to (n/d) * (eu/ed), for n > 0: n/d is scaled by powers
\* of two into [2^(Prec-1), 2^Prec) and rounded to an integer there
RECURSIVE RoundScaled(_, _, _, _)
RoundScaled(n, d, eu, ed) ==
    IF n >= Pow2(Prec) * d THEN RoundScaled(n, 2 * d, 2 * eu, ed)
    ELSE IF n < Pow2(Prec - 1) * d THEN RoundScaled(2 * n, d, eu, 2 * ed)
    ELSE LET m == n \div d
             r == n % d
             up == 2 * r > d \/ (2 * r = d /\ m % 2 = 1)
         IN  Reduce((IF up THEN m + 1 ELSE m) * eu, ed)

\* the float nearest to the rational n/d, d > 0
Round(n, d) ==
    IF n = 0 THEN <<0, 1>>
    ELSE IF n > 0 THEN RoundScaled(n, d, 1, 1)
    ELSE LET r == RoundScaled(-n, d, 1, 1) IN <<-r[1], r[2]>>

\* float(k) for an int k
FromInt(k) == Round(k, 1)

FMul(x, y) == Round(x[1] * y[1], x[2] * y[2])

FAdd(x, y) == Round(x[1] * y[2] + y[1] * x[2], x[2] * y[2])

\* x / y for y > 0
FDiv(x, y) == Round(x[1] * y[2], x[2] * y[1])

\* x <= y
FLeq(x, y) == x[1] * y[2] <= y[1] * x[2]

\* x < y
FLt(x, y) == x[1] * y[2] < y[1] * x[2]

---------------------------------------------------------------------------
(* Texts the Backend returns in place of a result.                         *)

\* "Error: "
ErrorPrefix == <<"E", "r", "r", "o", "r", ":", " ">>

\* "Error: No pages found in bucket."
NoPagesFound ==
    ErrorPrefix \o <<"N", "o", " ", "p", "a", "g", "e", "s", " ",
                     "f", "o", "u", "n", "d", " ", "i", "n", " ",
                     "b", "u", "c", "k", "e", "t", ".">>

\* f"Error: {e}": the text of e is that of the storage failure the tests
\* raise, "Network error"
ErrorText ==
    ErrorPrefix \o <<"N", "e", "t", "w", "o", "r", "k", " ",
                     "e", "r", "r", "o", "r">>

\* f"Error: Wiki page {name} not found."
WikiPageNotFound(name) ==
    ErrorPrefix \o <<"W", "i", "k", "i", " ", "p", "a", "g", "e", " ">>
        \o name \o <<" ", "n", "o", "t", " ", "f", "o", "u", "n", "d", ".">>

---------------------------------------------------------------------------
(* The page store and the Backend's two read operations.                   *)
(*                                                                         *)
(* The Backend is constructed with one of two storage clients:             *)
(*   "list"      list_blobs returns a list, which can be iterated again    *)
(*               and again, and opening a missing page raises NotFound     *)
(*               (the clients of backend_test.py);                         *)
(*   "iterator"  list_blobs returns a one-shot iterator that fetches the   *)
(*               listing when it is first iterated and raises when it is   *)
(*               iterated a second time, and get_blob returns None for a   *)
(*               missing page, so that blob.open fails with another        *)
(*               exception (the google.cloud.storage client).              *)

\* most changes other writers make to the store
MaxMutations == 1

\* most search_pages calls on the Backend
MaxCalls == 2

\* the names and contents of stored pages
PageNames == {<<"a">>, <<"e">>}

PageContents == {<<"e">>, <<"a", "e">>}

\* the order in which the store lists its pages
PageNameOrder == <<(<<"a">>), (<<"e">>)>>

\* every state of the store: some of the names, each with a content
Buckets == UNION {[S -> PageContents] : S \in SUBSET PageNames}

\* the names of the pages of bucket b, as the store lists them
ListBlobs(b) == SelectSeq(PageNameOrder, LAMBDA n : n \in DOMAIN b)

\* what iterating a str yields: its characters, each a str of length 1
Chars(text) == [k \in 1..Len(text) |-> <<text[k]>>]

\* Backend.get_all_page_names: the value returned, the state it leaves
\* self.pages_blobs in, and whether an error path produced the value.  A
\* returned str is given as what a for loop over it yields.  Every
\* exception is caught inside: none is raised to the caller.
get_all_page_names ==
    IF storage_client = "list"
    THEN IF pages_blobs.names = <<>>
         THEN [value |-> Chars(NoPagesFound), blobs |-> pages_blobs,
               error |-> TRUE, raised |-> FALSE]
         ELSE [value |-> pages_blobs.names, blobs |-> pages_blobs,
               error |-> FALSE, raised |-> FALSE]
    ELSE IF pages_blobs.started
    THEN [value |-> Chars(ErrorText), blobs |-> pages_blobs,
          error |-> TRUE, raised |-> FALSE]
    ELSE [value |-> ListBlobs(pages_bucket),
          blobs |-> [pages_blobs EXCEPT !.started = TRUE],
          error |-> FALSE, raised |-> FALSE]

\* Backend.get_wiki_page: the value returned and whether an except clause
\* produced it; none is raised to the caller
get_wiki_page(name) ==
    IF name \in DOMAIN pages_bucket
    THEN [value |-> pages_bucket[name], error |-> FALSE, raised |-> FALSE]
    ELSE IF storage_client = "list"
    THEN [value |-> WikiPageNotFound(name), error |-> TRUE, raised |-> FALSE]
    ELSE [value |-> ErrorText, error |-> TRUE, raised |-> FALSE]

\* wiki_searcher is the Backend itself, or an object handed in by the
\* caller.  Such an object lists titles and has a body for the k-th of
\* them, or raises instead: `fails` when asked for the titles, a page with
\* `missing` when asked for its body.
Self == [kind |-> "self", pages |-> <<>>, fails |-> FALSE]

Injected(pages, fails) ==
    [kind |-> "injected", pages |-> pages, fails |-> fails]

\* wiki_searcher.get_all_page_names()
SearcherTitles(w) ==
    IF w.kind = "self" THEN get_all_page_names
    ELSE [value |-> [k \in 1..Len(w.pages) |-> w.pages[k].title],
          blobs |-> pages_blobs, error |-> w.fails, raised |-> w.fails]

\* wiki_searcher.get_wiki_page(title), for the k-th title
SearcherContent(w, k, title) ==
    IF w.kind = "self" THEN get_wiki_page(title)
    ELSE [value |-> w.pages[k].body, error |-> w.pages[k].missing,
          raised |-> w.pages[k].missing]

---------------------------------------------------------------------------
(* Backend.search_pages.                                                   *)

\* (faulty variant: the title's distance is left out of the score)
RawScoreContentOnly(title_distance, content_similarity) ==
    FMul(Round(7, 10), FromInt(content_similarity))
\* (faulty variant: the weights of content and title are exchanged)
RawScoreWeightsSwapped(title_distance, content_similarity) ==
    FAdd(FMul(Round(3, 10), FromInt(content_similarity)),
         FMul(Round(7, 10), FromInt(title_distance)))
\* 0.7 * content_similarity + 0.3 * title_distance
RawScore(title_distance, content_similarity) ==
    FAdd(FMul(Round(7, 10), FromInt(content_similarity)),
         FMul(Round(3, 10), FromInt(title_distance)))

\* the relevance score of one page: the combined distance, scaled by the
\* length of the search
RelevanceScore(search_content, page_title, page_content) ==
    FDiv(RawScore(levenshtein_distance(search_content, page_title),
                  levenshtein_distance(search_content, page_content)),
         FromInt(Len(search_content)))

\* (faulty variant: the score is not divided by the length of the search)
AdjustedMaxUnscaled(max, search_content) == max
\* max_relevance_score / len(search_content)
AdjustedMax(max, search_content) == FDiv(max, FromInt(Len(search_content)))

\* (faulty variant: strictly below)
IsMatchStrict(relevance_score, max) == FLt(relevance_score, max)
\* relevance_score <= max_relevance_score
IsMatch(relevance_score, max) == FLeq(relevance_score, max)

\* (faulty variant: r goes before the elements of equal key)
RECURSIVE InsertByScoreBeforeEqual(_, _)
InsertByScoreBeforeEqual(sorted, r) ==
    IF sorted = <<>> THEN <<r>>
    ELSE IF FLeq(r[2], Head(sorted)[2]) THEN <<r>> \o sorted
    ELSE <<Head(sorted)>> \o InsertByScoreBeforeEqual(Tail(sorted), r)
\* list.sort compares keys with < and is stable: r goes before the first
\* element whose key it is below, after every other
RECURSIVE InsertByScore(_, _)
InsertByScore(sorted, r) ==
    IF sorted = <<>> THEN <<r>>
    ELSE IF FLt(r[2], Head(sorted)[2]) THEN <<r>> \o sorted
    ELSE <<Head(sorted)>> \o InsertByScore(Tail(sorted), r)

\* (faulty variant: the list is returned in the order of the loop)
SortByScoreSkipped(results) == results
\* search_results.sort(key=lambda x: x[1])
RECURSIVE SortByScore(_)
SortByScore(results) ==
    IF results = <<>> THEN <<>>
    ELSE InsertByScore(SortByScore(SubSeq(results, 1, Len(results) - 1)),
                       results[Len(results)])

\* [result[0] for result in search_results]
Titles(results) == [k \in 1..Len(results) |-> results[k][1]]

NoPrevious == [done |-> FALSE]

\* a caller invokes search_pages(search_content, max_relevance_score,
\* wiki_searcher)
Request(search_content, max, wiki_searcher) ==
    /\ \/ pc = "idle"
       \/ pc \in {"returned", "raised"} /\ request.n < MaxCalls
    /\ pc' = "called"
    /\ request' = [search_content |-> search_content,
                   max_relevance_score |-> max,
                   wiki_searcher |-> wiki_searcher,
                   mutations |-> mutations,
                   n |-> IF pc = "idle" THEN 1 ELSE request.n + 1]
    /\ previous' = IF pc = "returned"
                   THEN [done |-> TRUE, request |-> request,
                         page_titles |-> page_titles]
                   ELSE NoPrevious
    /\ max_relevance_score' = max
    /\ all_pages' = <<>>
    /\ idx' = 1
    /\ search_results' = <<>>
    /\ page_titles' = <<>>
    /\ calls' = <<>>
    /\ fetched' = <<>>
    /\ enumError' = FALSE
    /\ created' = {}
    /\ UNCHANGED storeVars
    /\ UNCHANGED metricVars
    /\ UNCHANGED opVars

\* (faulty variant: the empty search is not returned at once)
EntryWithoutEmptyCheck ==
    /\ pc = "called"
    /\ max_relevance_score' =
           IF Len(request.search_content) < 1 THEN max_relevance_score
           ELSE AdjustedMax(max_relevance_score, request.search_content)
    /\ search_results' = <<>>
    /\ pc' = "enumerate"
    /\ UNCHANGED <<request, all_pages, idx, calls, fetched, enumError,
                   previous, page_titles, created>>
    /\ UNCHANGED storeVars
    /\ UNCHANGED metricVars
    /\ UNCHANGED opVars
\* the head of search_pages: the empty search returns [] at once, any
\* other has its threshold scaled by its length
Entry ==
    /\ pc = "called"
    /\ IF Len(request.search_content) < 1
       THEN /\ page_titles' = <<>>
            /\ pc' = "returned"
            /\ UNCHANGED <<max_relevance_score, search_results>>
       ELSE /\ max_relevance_score' =
                   AdjustedMax(max_relevance_score, request.search_content)
            /\ search_results' = <<>>
            /\ pc' = "enumerate"
            /\ UNCHANGED page_titles
    /\ UNCHANGED <<request, all_pages, idx, calls, fetched, enumError,
                   previous, created>>
    /\ UNCHANGED storeVars
    /\ UNCHANGED metricVars
    /\ UNCHANGED opVars

\* all_pages = wiki_searcher.get_all_page_names(); search_pages has no
\* try, so what the searcher raises leaves search_pages
Enumerate ==
    /\ pc = "enumerate"
    /\ LET got == SearcherTitles(request.wiki_searcher)
       IN  /\ all_pages' = IF got.raised THEN <<>> ELSE got.value
           /\ pages_blobs' = got.blobs
           /\ enumError' = got.error
           /\ pc' = IF got.raised THEN "raised" ELSE "loop"
    /\ calls' = Append(calls, <<"get_all_page_names">>)
    /\ idx' = 1
    /\ created' = {}
    /\ UNCHANGED <<request, max_relevance_score, search_results,
                   page_titles, fetched, previous>>
    /\ UNCHANGED <<storage_client, pages_bucket, mutations>>
    /\ UNCHANGED metricVars
    /\ UNCHANGED opVars

\* (faulty variant: a fetch that fails is tried a second time)
IterateRetries ==
    /\ pc = "loop"
    /\ idx <= Len(all_pages)
    /\ LET page_title == all_pages[idx]
           got == SearcherContent(request.wiki_searcher, idx, page_title)
           page_content == got.value
           relevance_score ==
               RelevanceScore(request.search_content, page_title,
                              page_content)
       IN  /\ search_results' =
                  IF ~got.raised
                     /\ IsMatch(relevance_score, max_relevance_score)
                  THEN Append(search_results,
                              <<page_title, relevance_score>>)
                  ELSE search_results
           /\ fetched' = Append(fetched, [content |-> page_content,
                                          error |-> got.error,
                                          score |-> relevance_score])
           /\ pc' = IF got.raised THEN "raised" ELSE "loop"
    /\ calls' = LET fetch == <<"get_wiki_page", all_pages[idx]>>
                    failed == SearcherContent(request.wiki_searcher, idx,
                                              all_pages[idx]).error
                IN  IF failed THEN Append(Append(calls, fetch), fetch)
                    ELSE Append(calls, fetch)
    /\ idx' = idx + 1
    /\ UNCHANGED <<request, max_relevance_score, all_pages,
                   page_titles, enumError, previous, created>>
    /\ UNCHANGED storeVars
    /\ UNCHANGED metricVars
    /\ UNCHANGED opVars
\* one iteration of the loop over all_pages: fetch, score, keep or drop
Iterate ==
    /\ pc = "loop"
    /\ idx <= Len(all_pages)
    /\ LET page_title == all_pages[idx]
           got == SearcherContent(request.wiki_searcher, idx, page_title)
           page_content == got.value
           relevance_score ==
               RelevanceScore(request.search_content, page_title,
                              page_content)
       IN  /\ search_results' =
                  IF ~got.raised
                     /\ IsMatch(relevance_score, max_relevance_score)
                  THEN Append(search_results,
                              <<page_title, relevance_score>>)
                  ELSE search_results
           /\ fetched' = Append(fetched, [content |-> page_content,
                                          error |-> got.error,
                                          score |-> relevance_score])
           /\ pc' = IF got.raised THEN "raised" ELSE "loop"
    /\ calls' = Append(calls, <<"get_wiki_page", all_pages[idx]>>)
    /\ idx' = idx + 1
    /\ UNCHANGED <<request, max_relevance_score, all_pages,
                   page_titles, enumError, previous, created>>
    /\ UNCHANGED storeVars
    /\ UNCHANGED metricVars
    /\ UNCHANGED opVars

\* after the loop: sort by score, return the titles
Return ==
    /\ pc = "loop"
    /\ idx > Len(all_pages)
    /\ search_results' = SortByScore(search_results)
    /\ page_titles' = Titles(search_results')
    /\ pc' = "returned"
    /\ UNCHANGED <<request, max_relevance_score, all_pages, idx, calls,
                   fetched, enumError, previous, created>>
    /\ UNCHANGED storeVars
    /\ UNCHANGED metricVars
    /\ UNCHANGED opVars

---------------------------------------------------------------------------
(* Other writers to the store: the Backend objects the request handlers of *)
(* pages.py construct, one per request.  The listing this Backend made is  *)
(* not told of their changes.                                              *)

\* another Backend stores data under name (blob.upload_from_string)
OtherUpload(name, data) ==
    /\ mutations < MaxMutations
    /\ ~(name \in DOMAIN pages_bucket /\ pages_bucket[name] = data)
    /\ pages_bucket' = [n \in DOMAIN pages_bucket \cup {name} |->
                           IF n = name THEN data ELSE pages_bucket[n]]
    /\ mutations' = mutations + 1
    /\ created' = IF pc = "loop" /\ name \notin DOMAIN pages_bucket
                  THEN created \cup {name}
                  ELSE created
    /\ UNCHANGED <<storage_client, pages_blobs>>
    /\ UNCHANGED <<pc, request, max_relevance_score, all_pages, idx,
                   search_results, page_titles, calls, fetched, enumError,
                   previous>>
    /\ UNCHANGED metricVars
    /\ UNCHANGED opVars

\* another Backend deletes the page (blob.delete)
OtherDelete(name) ==
    /\ mutations < MaxMutations
    /\ name \in DOMAIN pages_bucket
    /\ pages_bucket' = [n \in DOMAIN pages_bucket \ {name} |->
                           pages_bucket[n]]
    /\ mutations' = mutations + 1
    /\ UNCHANGED <<storage_client, pages_blobs>>
    /\ UNCHANGED callVars
    /\ UNCHANGED metricVars
    /\ UNCHANGED opVars

---------------------------------------------------------------------------
(* The other operations of the Backend: upload, sign_up, sign_in,          *)
(* delete_page, and get_wiki_page called on its own.  Each leaves in       *)
(* `reply` what it was called with, what the store held then, and what it  *)
(* returned or raised.                                                     *)
(*                                                                         *)
(* With the "list" client a lookup (get_blob, blob) gives a handle whether *)
(* or not the blob exists, and deleting a blob that is gone raises         *)
(* NotFound.  With the "iterator" client get_blob gives None for a blob    *)
(* that does not exist.                                                    *)

\* most operations called on the Backend
MaxOps == 2

\* names and passwords of users
UserNames == {<<"u">>, <<"u", "v">>}

Passwords == {<<"p">>, <<"v", "p">>}

UserNameOrder == <<(<<"u">>), (<<"u", "v">>)>>

\* f"{name}{password}"
Salted(name, password) == name \o password

\* hashlib.sha3_256(salty_password).hexdigest(): a digest, different for
\* different texts
Sha3Hex(text) == <<"sha3_256", text>>

\* every state of the user store
UserBuckets ==
    UNION {{b \in [S -> {Sha3Hex(Salted(n, q)) :
                            n \in UserNames, q \in Passwords}] :
               \A n \in S : \E q \in Passwords :
                   b[n] = Sha3Hex(Salted(n, q))} :
              S \in SUBSET UserNames}

\* the names of the users of bucket b, as the store lists them
ListUsers(b) == SelectSeq(UserNameOrder, LAMBDA n : n \in DOMAIN b)

\* `for blob in blobs`, blobs being self.pages_blobs or self.users_blobs:
\* the names met, the state the listing is left in, and whether the
\* iteration raised.  A list is iterated as often as asked; the one-shot
\* iterator lists the store (`listed`) when first iterated, and raises
\* ValueError when iterated again.
IterateBlobs(blobs, listed) ==
    IF storage_client = "list"
    THEN [names |-> blobs.names, blobs |-> blobs, raised |-> FALSE]
    ELSE IF blobs.started
    THEN [names |-> <<>>, blobs |-> blobs, raised |-> TRUE]
    ELSE [names |-> listed, blobs |-> [blobs EXCEPT !.started = TRUE],
          raised |-> FALSE]

\* the names of a listing, as a set
Listed(names) == {names[k] : k \in 1..Len(names)}

\* bucket b with content under name
Stored(b, name, content) ==
    [n \in DOMAIN b \cup {name} |-> IF n = name THEN content ELSE b[n]]

\* bucket b without name
Removed(b, name) == [n \in DOMAIN b \ {name} |-> b[n]]

\* the Backend is between two search_pages calls
Free == pc \in {"idle", "returned", "raised"}

\* Backend.upload(data, destination_blob_name)
Upload(data, destination_blob_name) ==
    /\ Free
    /\ ops < MaxOps
    /\ LET existed == destination_blob_name \in DOMAIN pages_bucket
           checked == data # <<>> /\ destination_blob_name # <<>>
           it == IterateBlobs(pages_blobs, ListBlobs(pages_bucket))
           result ==
               IF data = <<>> THEN "Please upload a file."
               ELSE IF destination_blob_name = <<>>
               THEN "Please provide the name of the page."
               ELSE IF it.raised THEN "raised"
               ELSE IF destination_blob_name \in Listed(it.names)
               THEN "Upload failed. You cannot overrite an existing page"
               \* get_blob gave None: None.upload_from_string raises
               ELSE IF storage_client = "iterator" /\ ~existed
               THEN "raised"
               ELSE "uploaded to Wiki."
           after == IF result = "uploaded to Wiki."
                    THEN Stored(pages_bucket, destination_blob_name, data)
                    ELSE pages_bucket
       IN  /\ reply' = [op |-> "upload", name |-> destination_blob_name,
                        data |-> data, existed |-> existed,
                        before |-> pages_bucket, after |-> after,
                        result |-> result]
           /\ pages_blobs' = IF checked THEN it.blobs ELSE pages_blobs
           /\ pages_bucket' = after
    /\ ops' = ops + 1
    /\ UNCHANGED <<storage_client, mutations>>
    /\ UNCHANGED <<users_bucket, users_blobs>>
    /\ UNCHANGED callVars
    /\ UNCHANGED metricVars

\* Backend.sign_up(name, password): bucket.blob(name) gives a handle with
\* either client, and writing through it creates or replaces the blob
SignUp(name, password) ==
    /\ Free
    /\ ops < MaxOps
    /\ LET existed == name \in DOMAIN users_bucket
           it == IterateBlobs(users_blobs, ListUsers(users_bucket))
           result ==
               IF it.raised THEN "raised"
               ELSE IF name \in Listed(it.names)
               THEN "already exists in the database. Please sign in."
               ELSE "successfully created."
           after == IF result = "successfully created."
                    THEN Stored(users_bucket, name,
                                Sha3Hex(Salted(name, password)))
                    ELSE users_bucket
       IN  /\ reply' = [op |-> "sign_up", name |-> name,
                        password |-> password, existed |-> existed,
                        before |-> users_bucket, after |-> after,
                        result |-> result]
           /\ users_blobs' = it.blobs
           /\ users_bucket' = after
    /\ ops' = ops + 1
    /\ UNCHANGED storeVars
    /\ UNCHANGED callVars
    /\ UNCHANGED metricVars

\* Backend.sign_in(username, password): the stored hash is read through
\* the blob of the listing whose name is username, if there is one
SignIn(username, password) ==
    /\ Free
    /\ ops < MaxOps
    /\ LET existed == username \in DOMAIN users_bucket
           hashed == Sha3Hex(Salted(username, password))
           it == IterateBlobs(users_blobs, ListUsers(users_bucket))
           stored == username \in Listed(it.names)
           result ==
               IF it.raised THEN "raised"
               ELSE IF ~stored THEN "False"
               \* blob.open("r") of a blob that is gone raises NotFound
               ELSE IF ~existed THEN "raised"
               ELSE IF hashed = users_bucket[username] THEN "True"
               ELSE "False"
           signed_up == /\ reply.op = "sign_up"
                        /\ reply.name = username
                        /\ reply.result = "successfully created."
       IN  /\ reply' = [op |-> "sign_in", name |-> username,
                        password |-> password, existed |-> existed,
                        before |-> users_bucket, after |-> users_bucket,
                        signed_up |-> signed_up,
                        with |-> IF signed_up THEN reply.password ELSE <<>>,
                        result |-> result]
           /\ users_blobs' = it.blobs
    /\ ops' = ops + 1
    /\ UNCHANGED users_bucket
    /\ UNCHANGED storeVars
    /\ UNCHANGED callVars
    /\ UNCHANGED metricVars

\* Backend.delete_page(name)
DeletePage(name) ==
    /\ Free
    /\ ops < MaxOps
    /\ LET existed == name \in DOMAIN pages_bucket
           it == IterateBlobs(pages_blobs, ListBlobs(pages_bucket))
           result ==
               IF it.raised THEN "raised"
               ELSE IF name \in Listed(it.names)
               \* blob.delete() of a blob that is gone raises NotFound
               THEN IF existed THEN "True" ELSE "raised"
               ELSE "False"
           after == IF result = "True" THEN Removed(pages_bucket, name)
                    ELSE pages_bucket
           again == /\ reply.op = "delete_page"
                    /\ reply.name = name
                    /\ reply.result = "True"
       IN  /\ reply' = [op |-> "delete_page", name |-> name,
                        existed |-> existed, before |-> pages_bucket,
                        after |-> after, again |-> again,
                        result |-> result]
           /\ pages_blobs' = it.blobs
           /\ pages_bucket' = after
    /\ ops' = ops + 1
    /\ UNCHANGED <<storage_client, mutations>>
    /\ UNCHANGED <<users_bucket, users_blobs>>
    /\ UNCHANGED callVars
    /\ UNCHANGED metricVars

\* Backend.get_wiki_page(name), called by a request handler
GetWikiPage(name) ==
    /\ Free
    /\ ops < MaxOps
    /\ LET got == get_wiki_page(name)
       IN  reply' = [op |-> "get_wiki_page", name |-> name,
                     existed |-> name \in DOMAIN pages_bucket,
                     before |-> pages_bucket,
                     result |-> IF got.raised THEN "raised" ELSE "returned",
                     value |-> got.value]
    /\ ops' = ops + 1
    /\ UNCHANGED storeVars
    /\ UNCHANGED <<users_bucket, users_blobs>>
    /\ UNCHANGED callVars
    /\ UNCHANGED metricVars

---------------------------------------------------------------------------
(* SpecMetric: the metric applied to argument strings drawn from a bounded *)
(* set, next to a breadth-first application of single edits to sa.         *)

NotMeasured == [measured |-> FALSE]

\* no Backend takes part
NoBackend ==
    /\ storage_client = "list"
    /\ pages_bucket = <<>>
    /\ pages_blobs = [names |-> <<>>, started |-> FALSE]
    /\ mutations = 0

NoReply == [op |-> "none"]

\* no user is stored and no other operation was called
NoOps ==
    /\ users_bucket = <<>>
    /\ users_blobs = [names |-> <<>>, started |-> FALSE]
    /\ reply = NoReply
    /\ ops = 0

NoCall ==
    /\ pc = "idle"
    /\ request = [n |-> 0]
    /\ max_relevance_score = <<0, 1>>
    /\ all_pages = <<>>
    /\ idx = 1
    /\ search_results = <<>>
    /\ page_titles = <<>>
    /\ calls = <<>>
    /\ fetched = <<>>
    /\ enumError = FALSE
    /\ previous = NoPrevious
    /\ created = {}

MetricInit ==
    /\ NoBackend
    /\ NoOps
    /\ NoCall
    /\ sa \in StringsUpTo(MaxStr)
    /\ sb \in StringsUpTo(MaxStr)
    /\ sc \in StringsUpTo(MaxStr)
    /\ dist = NotMeasured
    /\ reach = {sa}
    /\ edits = 0

\* call the metric on the pairs of arguments
Measure ==
    /\ dist = NotMeasured
    /\ dist' = [measured |-> TRUE,
                ab |-> levenshtein_distance(sa, sb),
                ba |-> levenshtein_distance(sb, sa),
                bc |-> levenshtein_distance(sb, sc),
                ac |-> levenshtein_distance(sa, sc)]
    /\ UNCHANGED <<sa, sb, sc, reach, edits>>
    /\ UNCHANGED storeVars
    /\ UNCHANGED callVars
    /\ UNCHANGED opVars

\* apply one more single-character edit to everything reached so far,
\* until sb is reached
EditStep ==
    /\ sb \notin reach
    /\ reach' = reach \cup UNION {OneEdit(s) : s \in reach}
    /\ edits' = edits + 1
    /\ UNCHANGED <<sa, sb, sc, dist>>
    /\ UNCHANGED storeVars
    /\ UNCHANGED callVars
    /\ UNCHANGED opVars

MetricNext == Measure \/ EditStep

SpecMetric == MetricInit /\ [][MetricNext]_vars

---------------------------------------------------------------------------
(* SpecRank: search_pages applied to a search, a threshold and a searcher  *)
(* handed in by the caller, all drawn from bounded sets.                   *)

\* most pages the handed-in searcher lists
MaxPages == 2

\* thresholds are the floats nearest to k/16, k from -1 to MaxThreshold
MaxThreshold == 33

RankQueries == {<<>>, <<"a">>, <<"a", "b">>, <<"a", "a", "a">>}

RankThresholds == {Round(k, 16) : k \in -1..MaxThreshold}

\* the pages a handed-in searcher may list
RankTitles == {<<"a">>, <<"a", "a">>}

RankBodies == {<<"a">>, <<"a", "b">>, <<"b", "b", "b">>}

RankPages ==
    {[title |-> t, body |-> b, missing |-> FALSE] :
        t \in RankTitles, b \in RankBodies}
        \cup {[title |-> <<"a">>, body |-> <<>>, missing |-> TRUE]}

\* the handed-in searchers
RankSearchers ==
    {Injected(c, FALSE) :
        c \in UNION {[1..k -> RankPages] : k \in 0..MaxPages}}
        \cup {Injected(<<>>, TRUE)}

NoMetric ==
    /\ sa = <<>>
    /\ sb = <<>>
    /\ sc = <<>>
    /\ dist = NotMeasured
    /\ reach = {}
    /\ edits = 0

RankInit ==
    /\ NoMetric
    /\ NoBackend
    /\ NoOps
    /\ pc = "called"
    /\ \E q \in RankQueries, m \in RankThresholds, w \in RankSearchers :
          /\ request = [search_content |-> q,
                        max_relevance_score |-> m,
                        wiki_searcher |-> w,
                        mutations |-> 0,
                        n |-> 1]
          /\ max_relevance_score = m
    /\ all_pages = <<>>
    /\ idx = 1
    /\ search_results = <<>>
    /\ page_titles = <<>>
    /\ calls = <<>>
    /\ fetched = <<>>
    /\ enumError = FALSE
    /\ previous = NoPrevious
    /\ created = {}

RankNext == Entry \/ Enumerate \/ Iterate \/ Return

SpecRank == RankInit /\ [][RankNext]_vars

---------------------------------------------------------------------------
(* SpecTests: search_pages applied as the tests of backend_test.py apply   *)
(* it, to the searches, thresholds and handed-in searchers of those tests. *)
(* A searcher lists its four pages in any order.                           *)

\* "A cat is a domesticated carnivorous mammal"
CatBody ==
    <<"A", " ", "c", "a", "t", " ", "i", "s", " ", "a", " ", "d", "o",
      "m", "e", "s", "t", "i", "c", "a", "t", "e", "d", " ", "c", "a",
      "r", "n", "i", "v", "o", "r", "o", "u", "s", " ", "m", "a", "m",
      "m", "a", "l">>

\* "A dog is a domesticated carnivorous mammal"
DogBody ==
    <<"A", " ", "d", "o", "g", " ", "i", "s", " ", "a", " ", "d", "o",
      "m", "e", "s", "t", "i", "c", "a", "t", "e", "d", " ", "c", "a",
      "r", "n", "i", "v", "o", "r", "o", "u", "s", " ", "m", "a", "m",
      "m", "a", "l">>

\* "Birds, also known as Aves, are a group of warm-blooded vertebrates"
BirdBody ==
    <<"B", "i", "r", "d", "s", ",", " ", "a", "l", "s", "o", " ", "k",
      "n", "o", "w", "n", " ", "a", "s", " ", "A", "v", "e", "s", ",",
      " ", "a", "r", "e", " ", "a", " ", "g", "r", "o", "u", "p", " ",
      "o", "f", " ", "w", "a", "r", "m", "-", "b", "l", "o", "o", "d",
      "e", "d", " ", "v", "e", "r", "t", "e", "b", "r", "a", "t", "e",
      "s">>

\* "Fish are aquatic animals that breathe through gills"
FishBody ==
    <<"F", "i", "s", "h", " ", "a", "r", "e", " ", "a", "q", "u", "a",
      "t", "i", "c", " ", "a", "n", "i", "m", "a", "l", "s", " ", "t",
      "h", "a", "t", " ", "b", "r", "e", "a", "t", "h", "e", " ", "t",
      "h", "r", "o", "u", "g", "h", " ", "g", "i", "l", "l", "s">>

\* a page the searcher of a test lists
TestPage(title, body) == [title |-> title, body |-> body, missing |-> FALSE]

\* the pages of test_search_pages_result, as that test lists them
AnimalPages ==
    <<TestPage(<<"C", "a", "t">>, CatBody),
      TestPage(<<"D", "o", "g">>, DogBody),
      TestPage(<<"B", "i", "r", "d">>, BirdBody),
      TestPage(<<"F", "i", "s", "h">>, FishBody)>>

\* the pages of test_search_pages_result_order, as that test lists them
CatPages ==
    <<TestPage(<<"C", "a", "t", "1", "1">>, CatBody),
      TestPage(<<"C", "a", "t", "1">>, CatBody),
      TestPage(<<"C", "a", "t">>, CatBody),
      TestPage(<<"C", "a", "t", "1", "1", "1">>, CatBody)>>

\* the same pages, listed in every order
Reorderings(pages) ==
    {[k \in 1..Len(pages) |-> pages[f[k]]] :
        f \in Permutations(1..Len(pages))}

TestSearchers ==
    {Injected(c, FALSE) :
        c \in Reorderings(AnimalPages) \cup Reorderings(CatPages)}

\* 'cat' and 'happy'
TestQueries == {<<"c", "a", "t">>, <<"h", "a", "p", "p", "y">>}

\* 0.8955, and the 1 of test_search_pages_relevance_score
TestThresholds == {Round(8955, 10000), Round(1, 1)}

TestInit ==
    /\ NoMetric
    /\ NoBackend
    /\ NoOps
    /\ pc = "called"
    /\ \E q \in TestQueries, m \in TestThresholds, w \in TestSearchers :
          /\ request = [search_content |-> q,
                        max_relevance_score |-> m,
                        wiki_searcher |-> w,
                        mutations |-> 0,
                        n |-> 1]
          /\ max_relevance_score = m
    /\ all_pages = <<>>
    /\ idx = 1
    /\ search_results = <<>>
    /\ page_titles = <<>>
    /\ calls = <<>>
    /\ fetched = <<>>
    /\ enumError = FALSE
    /\ previous = NoPrevious
    /\ created = {}

TestNext == Entry \/ Enumerate \/ Iterate \/ Return

SpecTests == TestInit /\ [][TestNext]_vars

---------------------------------------------------------------------------
(* Spec: one Backend over the page store, its search_pages called again    *)
(* and again with the Backend itself as the searcher (the default), while  *)
(* other writers change the store.                                         *)

Queries == {<<>>, <<"e">>}

Thresholds == {Round(-1, 1), Round(1, 1)}

\* Backend.__init__: the listing is made once, here
Init ==
    /\ NoMetric
    /\ storage_client \in {"list", "iterator"}
    /\ pages_bucket \in Buckets
    /\ pages_blobs = [names |-> IF storage_client = "list"
                                THEN ListBlobs(pages_bucket) ELSE <<>>,
                      started |-> FALSE]
    /\ mutations = 0
    /\ NoOps
    /\ NoCall

Next ==
    \/ \E q \in Queries, m \in Thresholds : Request(q, m, Self)
    \/ Entry
    \/ Enumerate
    \/ Iterate
    \/ Return
    \/ \E name \in PageNames, data \in PageContents : OtherUpload(name, data)
    \/ \E name \in PageNames : OtherDelete(name)

Spec == Init /\ [][Next]_vars

---------------------------------------------------------------------------
(* SpecStore: one Backend over the page store and the user store, its      *)
(* upload, sign_up, sign_in, delete_page and get_wiki_page called in any   *)
(* sequence, while other writers change the page store.                    *)

StoreInit ==
    /\ NoMetric
    /\ NoCall
    /\ storage_client \in {"list", "iterator"}
    /\ pages_bucket \in Buckets
    /\ pages_blobs = [names |-> IF storage_client = "list"
                                THEN ListBlobs(pages_bucket) ELSE <<>>,
                      started |-> FALSE]
    /\ mutations = 0
    /\ users_bucket \in UserBuckets
    /\ users_blobs = [names |-> IF storage_client = "list"
                                THEN ListUsers(users_bucket) ELSE <<>>,
                      started |-> FALSE]
    /\ reply = NoReply
    /\ ops = 0

StoreNext ==
    \/ \E data \in PageContents \cup {<<>>}, name \in PageNames \cup {<<>>} :
          Upload(data, name)
    \/ \E name \in UserNames, password \in Passwords : SignUp(name, password)
    \/ \E name \in UserNames, password \in Passwords : SignIn(name, password)
    \/ \E name \in PageNames : DeletePage(name)
    \/ \E name \in PageNames : GetWikiPage(name)
    \/ \E name \in PageNames, data \in PageContents : OtherUpload(name, data)
    \/ \E name \in PageNames : OtherDelete(name)

SpecStore == StoreInit /\ [][StoreNext]_vars

---------------------------------------------------------------------------
(* What the claims speak of, written out from the quantities of a call     *)
(* rather than taken from the operators of search_pages above.             *)

Returned == pc = "returned"

\* the call in progress, or just returned, has a non-empty search
NonEmptySearch == pc # "idle" /\ Len(request.search_content) >= 1

\* the two distances of the k-th enumerated page
TitleDist(k) == levenshtein_distance(request.search_content, all_pages[k])

ContentDist(k) ==
    levenshtein_distance(request.search_content, fetched[k].content)

\* 0.7 * contentDist + 0.3 * titleDist
Raw(k) ==
    FAdd(FMul(Round(7, 10), FromInt(ContentDist(k))),
         FMul(Round(3, 10), FromInt(TitleDist(k))))

\* score = raw / len(query)
Score(k) == FDiv(Raw(k), FromInt(Len(request.search_content)))

\* maxScore / len(query)
ScaledMax ==
    FDiv(request.max_relevance_score, FromInt(Len(request.search_content)))

\* how often title x is in the result, and how often among the enumerated
\* pages whose raw value, or whose score, is within the bound
InResult(x) == Cardinality({i \in 1..Len(page_titles) : page_titles[i] = x})

KeptByRaw(x) ==
    Cardinality({k \in 1..Len(all_pages) :
        all_pages[k] = x /\ FLeq(Raw(k), request.max_relevance_score)})

KeptByScore(x) ==
    Cardinality({k \in 1..Len(all_pages) :
        all_pages[k] = x /\ FLeq(Score(k), ScaledMax)})

TitlesSeen ==
    {all_pages[k] : k \in 1..Len(all_pages)}
        \cup {page_titles[i] : i \in 1..Len(page_titles)}

---------------------------------------------------------------------------
(* C1: search_pages called with an empty query returns the empty list,     *)
(* whatever the threshold and the stored pages, and calls neither          *)
(* get_all_page_names nor get_wiki_page: the call goes from its entry      *)
(* straight to its return.                                                 *)
C1_EmptyQueryReturnsEmptyWithoutAccess ==
    (pc # "idle" /\ Len(request.search_content) = 0) =>
        /\ pc \in {"called", "returned"}
        /\ calls = <<>>
        /\ page_titles = <<>>

\* C1 witness: an empty search has returned on a Backend that has pages
C1_Witness ==
    /\ Returned
    /\ Len(request.search_content) = 0
    /\ DOMAIN pages_bucket # {}
    /\ pages_blobs.names # <<>>

(* C2, as claimed: for a non-empty query a page of the enumerated corpus   *)
(* is in the result if and only if 0.7 * contentDist + 0.3 * titleDist <=  *)
(* maxScore.                                                               *)
C2_IncludedIffRawWithinMax ==
    (Returned /\ NonEmptySearch) =>
        \A x \in TitlesSeen :
            InResult(x) = KeptByRaw(x)

(* C2, amended: for a non-empty query a page of the enumerated corpus is   *)
(* in the result if and only if score <= maxScore / len(query), both       *)
(* quotients as computed; raw <= maxScore is sufficient for that.          *)
C2_IncludedIffScoreWithinScaledMax ==
    (Returned /\ NonEmptySearch) =>
        /\ \A x \in TitlesSeen :
               InResult(x) = KeptByScore(x)
        /\ \A k \in 1..Len(all_pages) :
               FLeq(Raw(k), request.max_relevance_score)
                   => FLeq(Score(k), ScaledMax)

\* C2 witness: of two enumerated pages one was kept and one dropped, and
\* the kept one's raw value is above maxScore
C2_Witness ==
    /\ Returned
    /\ NonEmptySearch
    /\ Len(all_pages) = 2
    /\ Len(page_titles) = 1
    /\ \E k \in 1..2 :
          /\ FLeq(Score(k), ScaledMax)
          /\ ~FLeq(Raw(k), request.max_relevance_score)

(* C3: the returned list is sorted ascending by score: the result is the   *)
(* titles of the kept (title, score) pairs, each score the score of an     *)
(* enumerated page with that title, and a pair earlier in the list has a   *)
(* score <= that of a later one.                                           *)
C3_SortedAscendingByScore ==
    Returned =>
        /\ page_titles = [i \in 1..Len(search_results) |->
                              search_results[i][1]]
        /\ \A i \in 1..Len(search_results) :
               \E k \in 1..Len(all_pages) :
                   search_results[i] = <<all_pages[k], Score(k)>>
        /\ \A i, j \in 1..Len(search_results) :
               i < j => FLeq(search_results[i][2], search_results[j][2])

\* C3 witness: two pages were kept and the sort exchanged them
C3_Witness ==
    /\ Returned
    /\ Len(all_pages) = 2
    /\ Len(page_titles) = 2
    /\ page_titles[1] = all_pages[2]
    /\ page_titles[2] = all_pages[1]
    /\ FLt(search_results[1][2], search_results[2][2])

(* C4: a call in which the fetch of an enumerated page failed does not     *)
(* return a list: the failure reaches the caller, and no text standing in  *)
(* for the content is scored.                                              *)
C4_FetchFailureFailsSearch ==
    Returned => \A k \in 1..Len(fetched) : ~fetched[k].error

(* C5: a call whose enumeration of the titles failed or reported an error  *)
(* does not return a list of titles.                                       *)
C5_EnumerationFailureFailsSearch == Returned => ~enumError

(* C6: for a non-empty query and a threshold maxScore <= 0, search_pages   *)
(* returns the empty list.                                                 *)
C6_NonPositiveMaxRejectsAll ==
    (Returned /\ NonEmptySearch /\ FLeq(request.max_relevance_score, <<0, 1>>))
        => page_titles = <<>>

(* C7: a second search_pages call on the same Backend with the same query  *)
(* and threshold, both with the Backend as the searcher and the stored     *)
(* pages not having changed since the first call began, returns the same   *)
(* titles in the same order.                                               *)
C7_SameCallSameResult ==
    (/\ Returned
     /\ previous.done
     /\ request.wiki_searcher = Self
     /\ previous.request.wiki_searcher = Self
     /\ previous.request.search_content = request.search_content
     /\ previous.request.max_relevance_score = request.max_relevance_score
     /\ previous.request.mutations = mutations)
        => page_titles = previous.page_titles

---------------------------------------------------------------------------
(* C8: table[len(a)][len(b)] of the recurrence is the minimum number of    *)
(* single-character insertions, deletions and substitutions that turn a    *)
(* into b: sb is reached from sa after exactly that many edit rounds, and  *)
(* not before.                                                             *)
C8_TableIsMinimumEdits ==
    LET d == table(sa, sb)[Len(sa)][Len(sb)]
    IN  IF sb \in reach THEN d = edits ELSE d > edits

\* C8 witness: two edits were needed, one of them a substitution
C8_Witness ==
    /\ sb \in reach
    /\ edits = 2
    /\ Len(sa) = Len(sb)
    /\ Len(sa) = 2

(* C9: the metric is symmetric: distance(a, b) = distance(b, a).           *)
C9_Symmetric == dist.measured => dist.ab = dist.ba

\* C9 witness: measured on two different strings of different lengths
C9_Witness ==
    /\ dist.measured
    /\ Len(sa) < Len(sb)
    /\ dist.ab > Len(sb) - Len(sa)

(* C10: triangle inequality: distance(a, c) <= distance(a, b) +            *)
(* distance(b, c).                                                         *)
C10_Triangle == dist.measured => dist.ac <= dist.ab + dist.bc

\* C10 witness: three distinct strings, the inequality tight and non-trivial
C10_Witness ==
    /\ dist.measured
    /\ dist.ab > 0
    /\ dist.bc > 0
    /\ dist.ac = dist.ab + dist.bc

(* C11: distance("", s) and distance(s, "") both equal len(s), and the     *)
(* metric has a value, a natural number, for every pair of strings, the    *)
(* empty string included.                                                  *)
C11_EmptyStringDistanceIsLength ==
    dist.measured =>
        /\ dist.ab \in Nat /\ dist.ba \in Nat
        /\ dist.bc \in Nat /\ dist.ac \in Nat
        /\ sa = <<>> => (dist.ab = Len(sb) /\ dist.ba = Len(sb))
        /\ sb = <<>> => (dist.ab = Len(sa) /\ dist.ba = Len(sa))
        /\ sc = <<>> => (dist.bc = Len(sb) /\ dist.ac = Len(sa))

\* C11 witness: measured from and to the empty string, the other string of
\* two characters or more; and measured between two empty strings
C11_Witness ==
    /\ dist.measured
    /\ sa = <<>>
    /\ sc = <<>>
    /\ Len(sb) >= 2
    /\ dist.ac = 0

---------------------------------------------------------------------------
(* C12: for the query "cat", the page title "Cat" and the page content     *)
(* "A cat is a domesticated carnivorous mammal", the relevance score       *)
(* search_pages computes, (0.7 * distance(query, content) + 0.3 *          *)
(* distance(query, title)) / len(query), is exactly 0.25.                  *)
C12_CatScoreIsQuarter ==
    \A k \in 1..Len(fetched) :
        (/\ request.search_content = <<"c", "a", "t">>
         /\ all_pages[k] = <<"C", "a", "t">>
         /\ fetched[k].content = CatBody)
            => fetched[k].score = <<1, 4>>

(* C13: with the corpus enumerated as [Cat, Dog, Bird, Fish] and the       *)
(* bodies of test_search_pages_result, search_pages("cat", 0.8955) returns *)
(* exactly ["Cat"].                                                        *)
C13_CatSearchReturnsCat ==
    (/\ Returned
     /\ request.search_content = <<"c", "a", "t">>
     /\ request.max_relevance_score = Round(8955, 10000)
     /\ request.wiki_searcher = Injected(AnimalPages, FALSE))
        => page_titles = << <<"C", "a", "t">> >>

(* C14: when all pages of the corpus have the same content, the titles     *)
(* search_pages returns are in non-decreasing order of distance(query,     *)
(* title), whatever the order in which the corpus lists them.              *)
C14_SameContentOrderedByTitleDistance ==
    (/\ Returned
     /\ NonEmptySearch
     /\ \A k, l \in 1..Len(fetched) : fetched[k].content = fetched[l].content)
        => \A i, j \in 1..Len(page_titles) :
               i < j =>
                   levenshtein_distance(request.search_content, page_titles[i])
                       <= levenshtein_distance(request.search_content,
                                               page_titles[j])

\* C14 witness: two pages of the same content, listed with the title
\* farther from the query first, came back with the nearer title first
C14_Witness ==
    /\ Returned
    /\ NonEmptySearch
    /\ Len(all_pages) = 2
    /\ fetched[1].content = fetched[2].content
    /\ page_titles = <<all_pages[2], all_pages[1]>>
    /\ levenshtein_distance(request.search_content, all_pages[2])
           < levenshtein_distance(request.search_content, all_pages[1])

---------------------------------------------------------------------------
(* C15: a search_pages call during which other writers create or delete    *)
(* pages completes without error and scores exactly the titles its one     *)
(* enumeration gave: no call ends by raising, a returned call fetched      *)
(* each enumerated title, every returned title is an enumerated one, and   *)
(* no page created after the enumeration is in the result.                 *)
C15_SnapshotOfEnumeration ==
    /\ pc # "raised"
    /\ (Returned /\ NonEmptySearch) =>
           /\ Len(fetched) = Len(all_pages)
           /\ \A i \in 1..Len(page_titles) :
                  /\ \E k \in 1..Len(all_pages) : page_titles[i] = all_pages[k]
                  /\ page_titles[i] \notin created

---------------------------------------------------------------------------
(* C16: upload never overwrites an existing page: whenever a page named N  *)
(* is stored, upload(data, N) with non-empty data returns 'Upload failed.  *)
(* You cannot overrite an existing page' and leaves the stored content of  *)
(* N as it was.                                                            *)
C16_UploadNeverOverwrites ==
    (reply.op = "upload" /\ reply.existed /\ reply.data # <<>>) =>
        /\ reply.result = "Upload failed. You cannot overrite an existing page"
        /\ reply.name \in DOMAIN reply.after
        /\ reply.after[reply.name] = reply.before[reply.name]

(* C17: sign_up never replaces the credential of an existing user:         *)
(* whenever a user named N is stored, sign_up(N, password) returns the     *)
(* 'already exists in the database' message and leaves the stored password *)
(* hash of N as it was.                                                    *)
C17_SignUpNeverReplaces ==
    (reply.op = "sign_up" /\ reply.existed) =>
        /\ reply.result = "already exists in the database. Please sign in."
        /\ reply.name \in DOMAIN reply.after
        /\ reply.after[reply.name] = reply.before[reply.name]

(* C18: delete_page(name) returns True exactly when a page of that name is *)
(* stored at the time of the call and the call removes it, and returns     *)
(* False otherwise; a second delete_page(name) right after a successful    *)
(* one returns False.                                                      *)
C18_DeleteReturnsWhetherRemoved ==
    reply.op = "delete_page" =>
        /\ reply.result \in {"True", "False"}
        /\ reply.result = "True" <=>
               (reply.existed /\ reply.name \notin DOMAIN reply.after)
        /\ reply.after = (IF reply.existed
                          THEN Removed(reply.before, reply.name)
                          ELSE reply.before)
        /\ reply.again => reply.result = "False"

(* C19: get_wiki_page never raises: for a page that is not stored it       *)
(* returns 'Error: Wiki page <name> not found.', and only for a stored     *)
(* page the content of the page.                                           *)
C19_GetWikiPageNeverRaises ==
    reply.op = "get_wiki_page" =>
        /\ reply.result = "returned"
        /\ reply.value = (IF reply.existed THEN reply.before[reply.name]
                          ELSE WikiPageNotFound(reply.name))

---------------------------------------------------------------------------
(* C20: during one search_pages call with a non-empty query,               *)
(* get_all_page_names is called exactly once and before any content fetch, *)
(* and get_wiki_page exactly once for each enumerated title, in the order  *)
(* of the enumeration; no call is made a second time.                      *)
C20_OneEnumerationOneFetchEach ==
    NonEmptySearch =>
        /\ pc \in {"called", "enumerate"} => calls = <<>>
        /\ pc \in {"loop", "returned", "raised"} =>
               /\ Len(calls) >= 1
               /\ calls[1] = <<"get_all_page_names">>
        /\ Len(calls) <= 1 + Len(all_pages)
        /\ \A k \in 2..Len(calls) :
               calls[k] = <<"get_wiki_page", all_pages[k - 1]>>
        /\ pc = "loop" => Len(calls) = idx
        /\ Returned => Len(calls) = 1 + Len(all_pages)

\* C20 witness: a call over two pages of the same title has returned,
\* after one enumeration and two fetches
C20_Witness ==
    /\ Returned
    /\ NonEmptySearch
    /\ Len(all_pages) = 2
    /\ all_pages[1] = all_pages[2]
    /\ Len(calls) = 3

---------------------------------------------------------------------------
\* the enumerated pages search_pages keeps: those whose relevance_score,
\* as computed in the loop, is within the scaled threshold
KeptPages ==
    {k \in 1..Len(all_pages) : FLeq(fetched[k].score, max_relevance_score)}

\* the place of kept page k in the result: after the kept pages of lower
\* score, and after those of equal score enumerated before it
PlaceInResult(k) ==
    1 + Cardinality({l \in KeptPages :
                        \/ FLt(fetched[l].score, fetched[k].score)
                        \/ fetched[l].score = fetched[k].score /\ l < k})

(* C21: ties are broken by the order of the enumeration: two kept pages of *)
(* equal score are in the result in the order get_all_page_names gave      *)
(* them, so that the result is a function of the query, the threshold and  *)
(* the enumerated corpus: page k is at the place its score, and among      *)
(* equal scores its position in the enumeration, give it.                  *)
C21_TiesKeepEnumerationOrder ==
    (Returned /\ NonEmptySearch) =>
        /\ Len(page_titles) = Cardinality(KeptPages)
        /\ \A k \in KeptPages : page_titles[PlaceInResult(k)] = all_pages[k]

\* C21 witness: two pages of different titles and equal score were both
\* kept and came back in the order of the enumeration
C21_Witness ==
    /\ Returned
    /\ NonEmptySearch
    /\ Len(all_pages) = 2
    /\ all_pages[1] # all_pages[2]
    /\ KeptPages = {1, 2}
    /\ fetched[1].score = fetched[2].score
    /\ page_titles = all_pages

(* C22: every title search_pages returns with the Backend itself as the    *)
(* searcher is the name of a stored page, and no title is in the result    *)
(* more often than in the store, where a name is stored once; also when    *)
(* the store is empty or the enumeration reports an error.  Stated for the *)
(* calls during which the store did not change.                            *)
C22_TitlesAreStoredPages ==
    (/\ Returned
     /\ request.wiki_searcher = Self
     /\ request.mutations = mutations)
        => \A i \in 1..Len(page_titles) :
               /\ page_titles[i] \in DOMAIN pages_bucket
               /\ InResult(page_titles[i]) = 1

---------------------------------------------------------------------------
(* C23: after sign_up(name, password) has reported that the user was       *)
(* successfully created, sign_in(name, password) on the same Backend       *)
(* returns True, and sign_in(name, other) returns False for every other    *)
(* password whose salted hash differs.                                     *)
C23_SignInAfterSignUp ==
    (reply.op = "sign_in" /\ reply.signed_up) =>
        IF reply.password = reply.with THEN reply.result = "True"
        ELSE Sha3Hex(Salted(reply.name, reply.password))
                 # Sha3Hex(Salted(reply.name, reply.with))
                 => reply.result = "False"

===========================================================================
